---- MODULE Spec2Model ----
(***************************************************************************)
(* Model of the KYC front end's identity-verification flow.                *)
(*                                                                         *)
(* The FaceVerification component (FaceDetection.tsx) is a React function  *)
(* component: its useState cells are the variables below, its handlers and *)
(* the continuations after each await are the actions.  A passive effect   *)
(* (useEffect) closes over the state of the render that created it, and    *)
(* React runs it some time after the state changed; the variable eff holds *)
(* the values the currently subscribed effect closed over, and RunEffect   *)
(* is the step that cleans the old subscription up and installs the new.   *)
(* notify() only stores the status text, which no handler reads; the text  *)
(* is not part of the state.                                               *)
(*                                                                         *)
(* The pages outside the verification flow (LoginForm, SignupForm,         *)
(* AdminDashboard) each have one variable holding their useState cells and *)
(* a specification of their own.                                           *)
(***************************************************************************)
EXTENDS Integers, Naturals, Sequences, FiniteSets, TLC

VARIABLES
    host,                 \* which parent renders the component
    mounted,              \* a FaceVerification instance is mounted
    cameraActive, faceDetected, liveDetected, livenessDone,
    documentFile, loading, extractingData, verificationAttempted,
    eff,                  \* closure of the subscribed face-detection effect
    srcObject,            \* videoRef.current.srcObject: "null", "mp", "gum"
    mpStream,             \* stream of the camera_utils Camera of the effect
    gumLive,              \* live streams obtained by handleStartCamera
    pendingStarts,        \* handleStartCamera calls awaiting getUserMedia
    livInFlight,          \* POST /liveness-webcam requests awaiting a response
    verifyCapturing,      \* canvases of handleVerify calls awaiting toBlob
    verifyInFlight,       \* POST /verify requests awaiting a response
    dead,                 \* continuations of an instance that was unmounted
    obs,                  \* observation counters of the session
    watch,                \* which observations this run records
    frame,                \* the last detection result handled by onResults
    parent,               \* state of the parent component (ManualKYC, KYCAgent)
    form,                 \* KYCForm: prefillData prop and formData state
    loginForm,            \* LoginForm: formData, loading, the login call
    signupForm,           \* SignupForm: formData, loading, the signup call
    admin                 \* AdminDashboard: applications, selection, reason

fvState == <<cameraActive, faceDetected, liveDetected, livenessDone,
             documentFile, loading, extractingData, verificationAttempted>>
\* the other pages of the application, which share no state with the
\* verification flow
pages == <<loginForm, signupForm, admin>>
hw == <<host, watch, pages>>
camVars == <<eff, srcObject, mpStream, gumLive, pendingStarts>>
netVars == <<livInFlight, verifyCapturing, verifyInFlight>>
vars == <<host, mounted, fvState, camVars, netVars, dead, obs, watch, frame,
          parent, form, pages>>

(***************************************************************************)
(* Bounds of the model.                                                    *)
(***************************************************************************)
MaxStreams == 2           \* getUserMedia calls of handleStartCamera per run
MaxLivenessInFlight == 2  \* liveness requests awaiting a response
MaxSubmissions == 3       \* liveness frames submitted in one session
MaxAttempts == 4          \* match attempts in one session
MaxDeadVerify == 1        \* match requests outliving their instance
MaxDeadExtract == 1       \* extraction requests outliving their instance
MaxAgentInFlight == 1     \* KYCAgent extraction requests in flight
MaxLoginCalls == 2        \* login() calls of one LoginForm
MaxSignupCalls == 2       \* signup() calls of one SignupForm
MaxStatusUpdates == 2     \* updateKYCStatus() calls of one AdminDashboard

(***************************************************************************)
(* JavaScript values.  A string is the sequence of its characters; null    *)
(* and undefined are one value, Null.  a || b yields b when a is falsy.    *)
(***************************************************************************)
Null == <<"null">>
Empty == <<>>
Falsy(v) == v = Null \/ v = Empty
Or(a, b) == IF Falsy(a) THEN b ELSE a

StartsWith(s, p) ==
    /\ Len(s) >= Len(p)
    /\ SubSeq(s, 1, Len(p)) = p

Includes(s, p) ==
    \E i \in 0..(Len(s) - Len(p)) : SubSeq(s, i + 1, i + Len(p)) = p

LowerChar(c) ==
    CASE c = "M" -> "m" [] c = "A" -> "a" [] c = "L" -> "l" [] c = "E" -> "e"
      [] c = "F" -> "f" [] c = "O" -> "o" [] c = "T" -> "t" [] c = "H" -> "h"
      [] c = "R" -> "r" [] OTHER -> c
ToLowerCase(s) == [i \in 1..Len(s) |-> LowerChar(s[i])]

(***************************************************************************)
(* Files offered to the upload inputs.                                      *)
(***************************************************************************)
MaxFileSize == 5 * 1024 * 1024
ImagePrefix == <<"i","m","a","g","e","/">>
TypePng == <<"i","m","a","g","e","/","p","n","g">>
TypePdf == <<"a","p","p","/","p","d","f">>
TypeFakeImage == <<"x","/","i","m","a","g","e","/">>
FileTypes == {TypePng, TypePdf, TypeFakeImage}
FileSizes == {MaxFileSize, MaxFileSize + 1}
Files == [type : FileTypes, size : FileSizes]
NoFile == [type |-> Empty, size |-> 0]

\* faulty variant: "image/" anywhere in the type
IsImageAnywhere(file) == Includes(file.type, ImagePrefix)

\* the two checks both upload handlers make before any request
IsImage(file) == StartsWith(file.type, ImagePrefix)
TooLarge(file) == file.size > MaxFileSize
ValidFile(file) == IsImage(file) /\ ~TooLarge(file)

(***************************************************************************)
(* Extraction results (kyc_data of POST /extract-kyc-data) and their       *)
(* mapping to the prefill record.                                          *)
(***************************************************************************)
NameA == <<"A">>
NameB == <<"B">>
DateOne == <<"1">>
DateTwo == <<"2">>
Mobile == <<"9">>
Uid == <<"7">>
Street == <<"s">>
GenderMale == <<"M","a","l","e">>
GenderFemale == <<"F","E","M","A","L","E">>
GenderOther == <<"O","t","h","e","r">>
GenderUnlisted == <<"N","/","A">>

NoName == [kind |-> "null", val |-> <<>>]
EmptyKyc ==
    [name |-> NoName, gender |-> Null, date_of_birth |-> Null, dob |-> Null,
     mobile_number |-> Null, phone |-> Null, mobile |-> Null,
     aadhaar_number |-> Null, aadhaar |-> Null, uid |-> Null,
     address |-> Null, pan_number |-> Null, pan |-> Null]

\* inputs of the KYCForm specification
KycInputs ==
    { [EmptyKyc EXCEPT !.name = n, !.date_of_birth = d1, !.dob = d2,
                       !.mobile = m, !.gender = g] :
        n \in {NoName, [kind |-> "array", val |-> <<NameA>>],
               [kind |-> "string", val |-> <<NameB>>]},
        d1 \in {Null, DateOne}, d2 \in {Null, Empty, DateTwo},
        m \in {Null, Mobile},
        g \in {Null, Empty, GenderMale, GenderFemale, GenderOther,
               GenderUnlisted} }

\* inputs of the verification-flow specification
KycFull ==
    [EmptyKyc EXCEPT !.name = [kind |-> "array", val |-> <<NameA, NameB>>],
                     !.gender = GenderMale, !.date_of_birth = DateOne,
                     !.aadhaar_number = Uid]
KycGenderOnly == [EmptyKyc EXCEPT !.gender = GenderOther]
KycSamples == {KycFull, KycGenderOnly}

MapName(name) ==
    IF name.kind = "array" THEN name.val
    ELSE IF name.kind = "string" /\ ~Falsy(name.val[1]) THEN <<name.val[1]>>
    ELSE <<>>

MapGender(gender) ==
    IF Falsy(gender) THEN Null
    ELSE IF Includes(ToLowerCase(gender), <<"m","a","l","e">>)
         THEN <<"M","a","l","e">>
    ELSE IF Includes(ToLowerCase(gender), <<"f","e","m","a","l","e">>)
         THEN <<"F","e","m","a","l","e">>
    ELSE gender

prefillFormWithKYCData(kycData) ==
    [name |-> MapName(kycData.name),
     gender |-> MapGender(kycData.gender),
     dateOfBirth |-> Or(kycData.date_of_birth, Or(kycData.dob, Null)),
     mobileNumber |->
        Or(kycData.mobile_number, Or(kycData.phone, Or(kycData.mobile, Null))),
     aadhaarNumber |->
        Or(kycData.aadhaar_number, Or(kycData.aadhaar, Or(kycData.uid, Null))),
     address |-> Or(kycData.address, Null),
     panNumber |-> Or(kycData.pan_number, Or(kycData.pan, Null))]

NoPrefill ==
    [name |-> <<>>, gender |-> Null, dateOfBirth |-> Null,
     mobileNumber |-> Null, aadhaarNumber |-> Null, address |-> Null,
     panNumber |-> Null]

\* ManualKYC.handlePrefillData: the condition that shows the form at once
PrefillShowsForm(p) ==
    Len(p.name) > 0 \/ ~Falsy(p.aadhaarNumber) \/ ~Falsy(p.dateOfBirth)

(***************************************************************************)
(* Initial values.                                                         *)
(***************************************************************************)
Hosts == {"standalone", "manual", "agent"}

\* the effect of a render with cameraActive = false subscribes nothing
EffOff == [cameraActive |-> FALSE, faceDetected |-> FALSE,
           livenessDone |-> FALSE]

FrameInit == [result |-> FALSE, prev |-> FALSE, emitted |-> FALSE]

ObsInit ==
    [liveOK |-> FALSE,         \* live=true handled and not reset since
     badStart |-> FALSE,       \* a handleVerify passed its guards without it
     verified |-> FALSE,       \* onVerified(true) was delivered
     rejected |-> FALSE,       \* getUserMedia rejected
     detected |-> FALSE,       \* onResults handled a frame
     refused |-> FALSE,        \* an upload failed the local validation
     submitted |-> 0,          \* liveness frames submitted
     collecting |-> 0,         \* "collecting_frames" responses handled
     impure |-> FALSE,         \* a response outside "collecting.. then live"
     afterLive |-> FALSE,      \* a frame was submitted with livenessDone set
     attempts |-> 0,           \* POST /verify requests sent
     notice |-> "none",        \* notify() of the last /verify response
     errors |-> 0]             \* failed liveness requests handled in a row

\* a run records one group of observations: "session", "probe", "match" or
\* "presence"; the others stay at their initial value
Watches == {"session", "probe", "match", "presence"}

Observe(o) ==
    CASE watch = "session" ->
           [ObsInit EXCEPT !.liveOK = o.liveOK, !.badStart = o.badStart,
                           !.verified = o.verified, !.rejected = o.rejected,
                           !.detected = o.detected, !.refused = o.refused]
      [] watch = "probe" ->
           [ObsInit EXCEPT !.submitted = o.submitted,
                           !.collecting = o.collecting, !.impure = o.impure,
                           !.afterLive = o.afterLive, !.liveOK = o.liveOK,
                           !.errors = o.errors]
      [] watch = "match" ->
           [ObsInit EXCEPT !.attempts = o.attempts, !.verified = o.verified,
                           !.notice = o.notice]
      [] OTHER -> ObsInit

ObserveFrame(f) == IF watch = "presence" THEN f ELSE FrameInit

DeadInit == [starts |-> 0, verify |-> 0, extract |-> 0]

ParentInit(h) ==
    [step |-> IF h = "standalone" THEN "none" ELSE "welcome",
     prefill |-> NoPrefill,    \* formPrefillData as set through prefillData
     kyc |-> EmptyKyc,         \* KYCAgent: extractedData of its own upload
     extracted |-> FALSE,      \* ManualKYC: extractedData was set
     show |-> FALSE,           \* KYCAgent: showFaceVerification
     retry |-> FALSE,          \* KYCAgent: a retry button is in the chat
     uploaded |-> NoFile,      \* KYCAgent: uploadedDocument
     processing |-> FALSE,     \* KYCAgent: isProcessing
     inflight |-> 0,           \* KYCAgent: extraction requests in flight
     faceComplete |-> FALSE,   \* KYCAgent: faceVerificationComplete
     msg |-> "",               \* KYCAgent: the chat ends with this refusal
     timer |-> 0,              \* KYCAgent: pending completion timeouts
     completed |-> FALSE]      \* KYCAgent: onComplete was called

\* element i of a JavaScript array, undefined beyond its length
At(arr, i) == IF i <= Len(arr) THEN arr[i] ELSE Null

\* KYCForm: the initial formData, from the prefillData prop and the
\* signed-in user
NoUser == [firstName |-> Null, lastName |-> Null]
Users == {NoUser, [firstName |-> <<"U">>, lastName |-> <<"V">>]}

FormDataInit(p, user) ==
    [firstName |-> Or(At(p.name, 1), Or(user.firstName, Empty)),
     lastName |-> Or(At(p.name, 2), Or(user.lastName, Empty)),
     dateOfBirth |-> Or(p.dateOfBirth, Empty),
     phoneNumber |-> Or(p.mobileNumber, Empty),
     street |-> Or(p.address, Empty),
     documentNumber |-> Or(p.aadhaarNumber, Empty)]

FormInit == [user |-> NoUser, prefill |-> NoPrefill,
             data |-> FormDataInit(NoPrefill, NoUser), lastOp |-> "mount",
             raw |-> Null]     \* kycData.gender of the last extraction

\* the state of a FaceVerification instance after its mount effects
InstanceInit ==
    /\ cameraActive = FALSE
    /\ faceDetected = FALSE
    /\ liveDetected = FALSE
    /\ livenessDone = FALSE
    /\ documentFile = NoFile
    /\ loading = FALSE
    /\ extractingData = FALSE
    /\ verificationAttempted = FALSE
    /\ eff = EffOff
    /\ srcObject = "null"
    /\ mpStream = "none"
    /\ gumLive = 0
    /\ pendingStarts = 0
    /\ livInFlight = 0
    /\ verifyCapturing = <<>>
    /\ verifyInFlight = 0
    /\ dead = DeadInit
    /\ obs = ObsInit
    /\ frame = FrameInit

\* LoginForm after construction: empty fields, not loading, nothing shown
NoCall == <<>>
LoginFormInit ==
    [email |-> Empty, password |-> Empty, loading |-> FALSE,
     pending |-> NoCall,       \* arguments of the login() awaited
     notice |-> "none",        \* the last notify.error / notify.success
     navigated |-> FALSE,      \* window.location.href was assigned
     lastOp |-> "mount",
     calls |-> 0]              \* login() calls made

\* SignupForm after construction
SignupFormInit ==
    [firstName |-> Empty, lastName |-> Empty, email |-> Empty,
     password |-> Empty, confirmPassword |-> Empty, loading |-> FALSE,
     pending |-> NoCall,       \* argument of the signup() awaited
     notice |-> "none",        \* the last notify.error / notify.success
     timer |-> FALSE,          \* setTimeout(onToggleForm, 1000) is armed
     shown |-> TRUE,           \* the parent still shows this form
     lastOp |-> "mount",
     calls |-> 0]              \* signup() calls made

\* AdminDashboard once getAllKYCApplications has answered with two pending
\* applications
AppIds == {1, 2}
NoSelection == [id |-> 0, status |-> "none"]
AdminInit ==
    [status |-> [i \in AppIds |-> "pending"],
     reasonOf |-> [i \in AppIds |-> Null],  \* app.rejectionReason
     selected |-> NoSelection,     \* selectedApplication, a copy of the row
     rejectionReason |-> Empty,
     pending |-> {},               \* updateKYCStatus calls awaited
     sent |-> 0,                   \* PUT requests sent
     alert |-> "none",
     lastOp |-> "load",
     lastResp |-> "none"]          \* the response the last handler run saw

PagesInit ==
    /\ loginForm = LoginFormInit
    /\ signupForm = SignupFormInit
    /\ admin = AdminInit

InitFor(hosts, w, users) ==
    /\ PagesInit
    /\ host \in hosts
    /\ watch = w
    /\ mounted = (host = "standalone")
    /\ InstanceInit
    /\ parent = ParentInit(host)
    /\ \E u \in users :
          form = [FormInit EXCEPT !.user = u,
                                  !.data = FormDataInit(NoPrefill, u)]

\* the App route and ManualKYC, recording the session observations
Init == InitFor({"standalone", "manual"}, "session", {NoUser})

(***************************************************************************)
(* Unmounting.  React detaches videoRef before it runs the cleanup of a    *)
(* passive effect of an unmounted component, so the cleanup clears the     *)
(* interval and stops the Camera, while its own track-stopping branch      *)
(* finds videoRef.current null.  A stream handleStartCamera had attached   *)
(* stays live.  Continuations of the old instance still run: they are      *)
(* moved to dead.  Liveness responses only set state, which does nothing   *)
(* on an unmounted component.                                              *)
(***************************************************************************)
Teardown(m, vLeft, eLeft, d) ==
    /\ mounted' = m
    /\ cameraActive' = FALSE
    /\ faceDetected' = FALSE
    /\ liveDetected' = FALSE
    /\ livenessDone' = FALSE
    /\ documentFile' = NoFile
    /\ loading' = FALSE
    /\ extractingData' = FALSE
    /\ verificationAttempted' = FALSE
    /\ eff' = EffOff
    /\ srcObject' = "null"
    /\ mpStream' = "none"
    /\ gumLive' = gumLive
    /\ pendingStarts' = 0
    /\ livInFlight' = 0
    /\ verifyCapturing' = <<>>
    /\ verifyInFlight' = 0
    /\ dead' = [starts |-> d.starts + pendingStarts,
                verify |-> d.verify + vLeft,
                extract |-> d.extract + eLeft]
    /\ obs' = ObsInit
    /\ frame' = FrameInit

VerifyPending == Len(verifyCapturing) + verifyInFlight
ExtractPending == IF extractingData THEN 1 ELSE 0

\* the video element is rendered only while cameraActive (line 475)
VideoMounted == mounted /\ cameraActive

(***************************************************************************)
(* handleStartCamera                                                       *)
(***************************************************************************)
\* up to the await of getUserMedia; the button is rendered while
\* cameraActive is false (line 466)
StartCameraCall ==
    /\ mounted
    /\ ~cameraActive
    /\ gumLive + pendingStarts + dead.starts < MaxStreams
    /\ pendingStarts' = pendingStarts + 1
    /\ IF VideoMounted /\ srcObject # "null"
       THEN /\ srcObject' = "null"
            /\ gumLive' = IF srcObject = "gum" THEN gumLive - 1 ELSE gumLive
            /\ mpStream' = IF srcObject = "mp" THEN "none" ELSE mpStream
       ELSE UNCHANGED <<srcObject, gumLive, mpStream>>
    /\ UNCHANGED <<hw, mounted, fvState, eff, netVars, dead, obs, frame,
                   parent, form>>

\* getUserMedia resolved: the stream is attached only if a video element
\* exists, which needs an earlier call to have set cameraActive
StartCameraResolve ==
    /\ mounted
    /\ pendingStarts > 0
    /\ pendingStarts' = pendingStarts - 1
    /\ gumLive' = gumLive + 1
    /\ srcObject' = IF VideoMounted THEN "gum" ELSE srcObject
    /\ cameraActive' = TRUE
    /\ liveDetected' = FALSE
    /\ livenessDone' = FALSE
    /\ obs' = Observe([obs EXCEPT !.liveOK = FALSE,
                                  !.impure = @ \/ obs.submitted > 0])
    /\ UNCHANGED <<hw, mounted, faceDetected, documentFile, loading,
                   extractingData, verificationAttempted, eff, mpStream,
                   netVars, dead, frame, parent, form>>

\* faulty variant: the rejection marks the camera active
StartCameraRejectActivates ==
    /\ mounted
    /\ pendingStarts > 0
    /\ pendingStarts' = pendingStarts - 1
    /\ cameraActive' = TRUE
    /\ obs' = Observe([obs EXCEPT !.rejected = TRUE])
    /\ UNCHANGED <<hw, mounted, faceDetected, liveDetected, livenessDone,
                   documentFile, loading, extractingData,
                   verificationAttempted, eff, srcObject, mpStream, gumLive,
                   netVars, dead, frame, parent, form>>

\* getUserMedia rejected: the catch block alerts and sets nothing
StartCameraReject ==
    /\ mounted
    /\ pendingStarts > 0
    /\ pendingStarts' = pendingStarts - 1
    /\ obs' = Observe([obs EXCEPT !.rejected = TRUE])
    /\ UNCHANGED <<hw, mounted, fvState, eff, srcObject, mpStream, gumLive,
                   netVars, dead, frame, parent, form>>

(***************************************************************************)
(* The face-detection effect, deps [cameraActive, faceDetected,            *)
(* livenessDone].                                                          *)
(***************************************************************************)
Deps == [cameraActive |-> cameraActive, faceDetected |-> faceDetected,
         livenessDone |-> livenessDone]

\* the track-stopping branch of the cleanup, on the stream the video
\* element holds: if (videoRef.current?.srcObject) { stop tracks; = null }
StopAttached(c) ==
    IF c.srcObject = "null" THEN c
    ELSE [srcObject |-> "null",
          gumLive |-> IF c.srcObject = "gum" THEN c.gumLive - 1
                      ELSE c.gumLive]

\* cleanup of the previous run (if it subscribed), then the body
RunEffect ==
    /\ mounted
    /\ Deps # eff
    /\ eff' = Deps
    /\ LET c == [srcObject |-> srcObject, gumLive |-> gumLive]
           d == IF eff.cameraActive THEN StopAttached(c) ELSE c
       IN srcObject' = d.srcObject /\ gumLive' = d.gumLive
    /\ mpStream' = IF cameraActive THEN "pending" ELSE "none"
    /\ UNCHANGED <<hw, mounted, fvState, pendingStarts, netVars, dead, obs,
                   frame, parent, form>>

\* camera.start() of camera_utils obtained its stream and attached it
CameraAcquired ==
    /\ mounted
    /\ eff.cameraActive
    /\ mpStream = "pending"
    /\ mpStream' = "live"
    /\ srcObject' = "mp"
    /\ UNCHANGED <<hw, mounted, fvState, eff, gumLive, pendingStarts,
                   netVars, dead, obs, frame, parent, form>>

\* faceDetection.onResults for one frame, with the faceDetected of the
\* render that subscribed it
OnResults(present) ==
    /\ mounted
    /\ eff.cameraActive
    /\ mpStream = "live"
    /\ LET emits == present # eff.faceDetected
       IN /\ faceDetected' = IF emits THEN present ELSE faceDetected
          /\ frame' = ObserveFrame([result |-> present,
                                     prev |-> frame.result,
                                     emitted |-> emits])
    /\ obs' = Observe([obs EXCEPT !.detected = TRUE])
    /\ UNCHANGED <<hw, mounted, cameraActive, liveDetected, livenessDone,
                   documentFile, loading, extractingData,
                   verificationAttempted, camVars, netVars, dead, parent,
                   form>>

(***************************************************************************)
(* Liveness sampling.                                                      *)
(***************************************************************************)
\* the condition of the interval callback and the early return of
\* sendLivenessFrame, both closed over the render of the effect
LivenessGuard == eff.faceDetected /\ ~eff.livenessDone /\ eff.cameraActive

\* one firing of livenessInterval that submits a frame: toBlob yields a
\* blob only when the video has a stream
LivenessTick ==
    /\ mounted
    /\ eff.cameraActive
    /\ LivenessGuard
    /\ srcObject # "null"
    /\ livInFlight < MaxLivenessInFlight
    /\ obs.submitted < MaxSubmissions
    /\ livInFlight' = livInFlight + 1
    /\ obs' = Observe([obs EXCEPT !.submitted = @ + 1,
                                  !.afterLive = @ \/ livenessDone])
    /\ UNCHANGED <<hw, mounted, fvState, camVars, verifyCapturing,
                   verifyInFlight, dead, frame, parent, form>>

LivenessKinds == {"live", "collecting", "noface", "other", "error"}
FramesCollected == {4, 5}

\* if (data.live)
IsLiveVerdict(kind) == kind = "live"

\* a variant whose live branch leaves livenessDone alone
LivenessResponseConfirmsOnly(kind, frames) ==
    /\ mounted
    /\ livInFlight > 0
    /\ livInFlight' = livInFlight - 1
    /\ liveDetected' = IF IsLiveVerdict(kind) THEN TRUE ELSE liveDetected
    /\ livenessDone' = livenessDone
    /\ obs' = Observe([obs EXCEPT
                 !.collecting = IF kind = "collecting" THEN @ + 1 ELSE @,
                 !.impure = @ \/ kind \in {"noface", "other", "error"}
                              \/ obs.liveOK,
                 !.liveOK = @ \/ kind = "live",
                 !.errors = IF kind = "error" THEN @ + 1 ELSE 0])
    /\ UNCHANGED <<hw, mounted, cameraActive, faceDetected, documentFile,
                   loading, extractingData, verificationAttempted, camVars,
                   verifyCapturing, verifyInFlight, dead, frame, parent, form>>

\* the continuation of sendLivenessFrame after the response
LivenessResponse(kind, frames) ==
    /\ mounted
    /\ livInFlight > 0
    /\ livInFlight' = livInFlight - 1
    /\ liveDetected' = IF IsLiveVerdict(kind) THEN TRUE ELSE liveDetected
    /\ livenessDone' = IF IsLiveVerdict(kind) THEN TRUE ELSE livenessDone
    /\ obs' = Observe([obs EXCEPT
                 !.collecting = IF kind = "collecting" THEN @ + 1 ELSE @,
                 !.impure = @ \/ kind \in {"noface", "other", "error"}
                              \/ obs.liveOK,
                 !.liveOK = @ \/ kind = "live",
                 !.errors = IF kind = "error" THEN @ + 1 ELSE 0])
    /\ UNCHANGED <<hw, mounted, cameraActive, faceDetected, documentFile,
                   loading, extractingData, verificationAttempted, camVars,
                   verifyCapturing, verifyInFlight, dead, frame, parent, form>>

(***************************************************************************)
(* The callbacks the parents pass to FaceVerification.                     *)
(***************************************************************************)
\* onVerified: undefined (App route), ManualKYC.handleFaceVerificationComplete,
\* KYCAgent.handleFaceVerified
ParentOnVerified(h, p, success) ==
    CASE h = "manual" ->
           IF success THEN [p EXCEPT !.extracted = TRUE] ELSE p
      [] h = "agent" ->
           IF success
           THEN [p EXCEPT !.faceComplete = TRUE, !.show = FALSE, !.msg = "",
                          !.step = "verification-processing", !.timer = 1]
           ELSE [p EXCEPT !.show = FALSE, !.retry = TRUE, !.msg = ""]
      [] OTHER -> p

\* prefillData: undefined (App route), ManualKYC.handlePrefillData,
\* KYCAgent's setFormPrefillData
ParentOnPrefill(h, p, data) ==
    CASE h = "manual" ->
           [p EXCEPT !.prefill = data,
                     !.step = IF PrefillShowsForm(data) THEN "form" ELSE @]
      [] h = "agent" -> [p EXCEPT !.prefill = data]
      [] OTHER -> p

\* whether a FaceVerification is rendered under the parent state p
MountedUnder(h, p) ==
    CASE h = "manual" -> p.step = "face-verification"
      [] h = "agent" -> p.show
      [] OTHER -> mounted

\* ManualKYC declares FaceVerificationStep inside its own body and renders
\* it as an element, so each ManualKYC state update gives React a new
\* component type there and the FaceVerification below it is unmounted and
\* mounted afresh; KYCAgent unmounts it when showFaceVerification goes false
VerifiedTearsDown(h, success) ==
    /\ mounted
    /\ \/ h = "manual" /\ success
       \/ h = "agent"

PrefillTearsDown(h) == mounted /\ h = "manual"

(***************************************************************************)
(* FaceVerification.handleDocumentUpload and extractLeadsData              *)
(***************************************************************************)
\* the file input is disabled while extractingData (line 505)
HandleDocumentUpload(file) ==
    /\ mounted
    /\ ~extractingData
    /\ dead.extract < MaxDeadExtract
    /\ IF ~IsImage(file) \/ TooLarge(file)
       THEN /\ obs' = Observe([obs EXCEPT !.refused = TRUE])
            /\ UNCHANGED <<documentFile, extractingData>>
       ELSE /\ documentFile' = file
            /\ extractingData' = TRUE
            /\ obs' = obs
    /\ UNCHANGED <<hw, mounted, cameraActive, faceDetected, liveDetected,
                   livenessDone, loading, verificationAttempted, camVars,
                   netVars, dead, frame, parent, form>>

ExtractKinds == {"success", "fail", "error"}

\* the continuation of extractLeadsData after the response
ExtractResponse(kind, kyc) ==
    /\ mounted
    /\ extractingData
    /\ LET p2 == IF kind = "success"
                 THEN ParentOnPrefill(host, parent,
                                      prefillFormWithKYCData(kyc))
                 ELSE parent
       IN /\ parent' = p2
          /\ IF kind = "success" /\ PrefillTearsDown(host)
             THEN Teardown(MountedUnder(host, p2), VerifyPending, 0, dead)
             ELSE /\ extractingData' = FALSE
                  /\ UNCHANGED <<mounted, cameraActive, faceDetected,
                                 liveDetected, livenessDone, documentFile,
                                 loading, verificationAttempted, camVars,
                                 netVars, dead, obs, frame>>
    /\ UNCHANGED <<hw, form>>

(***************************************************************************)
(* handleVerify                                                            *)
(***************************************************************************)
\* faulty variant: the guard reads the presence flag
LiveConfirmedWrongFlag == faceDetected

\* the liveDetected cell as handleVerify and the button read it
LiveConfirmed == liveDetected

\* a variant whose button stays enabled while a handleVerify runs
VerifyButtonEnabledWhileLoading ==
    ~(documentFile = NoFile \/ ~LiveConfirmed \/ extractingData)

\* a variant whose button does not wait for the extraction
VerifyButtonEnabledEarly ==
    ~(documentFile = NoFile \/ ~LiveConfirmed \/ loading)

\* disabled={!documentFile || !liveDetected || loading || extractingData}
VerifyButtonEnabled ==
    ~(documentFile = NoFile \/ ~LiveConfirmed \/ loading \/ extractingData)

\* the two early returns of handleVerify
VerifyGuardsPass == documentFile # NoFile /\ LiveConfirmed

\* what a finished handleVerify does: notify, onVerified, setLoading(false);
\* vc and vi are the calls of this instance still pending after it
VerifyOutcome(success, vc, vi, o) ==
    LET p2 == ParentOnVerified(host, parent, success)
    IN /\ parent' = p2
       /\ IF VerifiedTearsDown(host, success)
          THEN Teardown(MountedUnder(host, p2), Len(vc) + vi, ExtractPending, dead)
          ELSE /\ loading' = FALSE
               /\ verificationAttempted' = TRUE
               /\ verifyCapturing' = vc
               /\ verifyInFlight' = vi
               /\ obs' = Observe([o EXCEPT !.verified = @ \/ success])
               /\ UNCHANGED <<mounted, cameraActive, faceDetected,
                              liveDetected, livenessDone, documentFile,
                              extractingData, camVars, livInFlight, dead,
                              frame>>

\* the canvas takes the video's dimensions: without a stream the video is
\* 0 x 0 and toBlob will call back with null
Canvas == IF srcObject = "null" THEN "blank" ELSE "frame"

\* a click on the button, up to the await of canvas.toBlob
VerifyStart ==
    /\ mounted
    /\ VerifyButtonEnabled
    /\ obs.attempts < MaxAttempts
    /\ dead.verify < MaxDeadVerify
    /\ IF ~VerifyGuardsPass
       THEN UNCHANGED vars
       ELSE IF ~VideoMounted
       THEN /\ VerifyOutcome(FALSE, verifyCapturing, verifyInFlight,
                             [obs EXCEPT !.badStart = @ \/ ~obs.liveOK])
            /\ UNCHANGED <<hw, form>>
       ELSE /\ loading' = TRUE
            /\ verificationAttempted' = TRUE
            /\ verifyCapturing' = Append(verifyCapturing, Canvas)
            /\ obs' = Observe([obs EXCEPT !.badStart = @ \/ ~obs.liveOK])
            /\ UNCHANGED <<hw, mounted, cameraActive, faceDetected,
                           liveDetected, livenessDone, documentFile,
                           extractingData, camVars, livInFlight,
                           verifyInFlight, dead, frame, parent, form>>

\* toBlob called back: without a selfie blob the handler fails, otherwise
\* POST /verify leaves
VerifySend ==
    /\ mounted
    /\ verifyCapturing # <<>>
    /\ IF Head(verifyCapturing) = "blank"
       THEN /\ VerifyOutcome(FALSE, Tail(verifyCapturing), verifyInFlight,
                             obs)
            /\ UNCHANGED <<hw, form>>
       ELSE /\ verifyCapturing' = Tail(verifyCapturing)
            /\ verifyInFlight' = verifyInFlight + 1
            /\ obs' = Observe([obs EXCEPT !.attempts = @ + 1])
            /\ UNCHANGED <<hw, mounted, fvState, camVars, livInFlight, dead,
                           frame, parent, form>>

VerifyResults ==
    {"verified", "no match", "unauthorized", "server error", "network error"}

\* data.verified === true || data.verified === 'true', after the status
\* checks; every failure ends in onVerified(false)
VerifiedResult(result) == result = "verified"

\* a variant that tests res.ok before res.status === 401
VerifyNoticeOkFirst(result) ==
    CASE result \in {"unauthorized", "server error"} -> "server"
      [] result = "network error" -> "network"
      [] OTHER -> result

\* the message handleVerify passes to notify: the 401 is tested first and
\* throws "Authentication failed. Please log in again.", any other status
\* outside 2xx throws "Server error: ...", a failed fetch throws its own
\* message, and the catch block notifies the message of what was thrown
VerifyNotice(result) ==
    CASE result = "unauthorized" -> "reauth"
      [] result = "server error" -> "server"
      [] result = "network error" -> "network"
      [] OTHER -> result

\* the continuation of handleVerify after the response
VerifyResponse(result) ==
    /\ mounted
    /\ verifyInFlight > 0
    /\ VerifyOutcome(VerifiedResult(result), verifyCapturing,
                     verifyInFlight - 1,
                     [obs EXCEPT !.notice = VerifyNotice(result)])
    /\ UNCHANGED <<hw, form>>

(***************************************************************************)
(* Continuations of an instance that is no longer mounted: its setState    *)
(* calls do nothing, its videoRef is null, the callbacks it captured are   *)
(* still called.                                                           *)
(***************************************************************************)
DeadStartResolve ==
    /\ dead.starts > 0
    /\ dead' = [dead EXCEPT !.starts = @ - 1]
    /\ gumLive' = gumLive + 1
    /\ UNCHANGED <<hw, mounted, fvState, eff, srcObject, mpStream,
                   pendingStarts, netVars, obs, frame, parent, form>>

DeadStartReject ==
    /\ dead.starts > 0
    /\ dead' = [dead EXCEPT !.starts = @ - 1]
    /\ UNCHANGED <<hw, mounted, fvState, camVars, netVars, obs, frame,
                   parent, form>>

DeadVerifyDone(success) ==
    /\ dead.verify > 0
    /\ LET p2 == ParentOnVerified(host, parent, success)
           d2 == [dead EXCEPT !.verify = @ - 1]
       IN /\ parent' = p2
          /\ IF VerifiedTearsDown(host, success)
             THEN Teardown(MountedUnder(host, p2), VerifyPending,
                           ExtractPending, d2)
             ELSE /\ dead' = d2
                  /\ UNCHANGED <<mounted, fvState, camVars, netVars, obs,
                                 frame>>
    /\ UNCHANGED <<hw, form>>

DeadExtractDone(kind, kyc) ==
    /\ dead.extract > 0
    /\ LET p2 == IF kind = "success"
                 THEN ParentOnPrefill(host, parent,
                                      prefillFormWithKYCData(kyc))
                 ELSE parent
           d2 == [dead EXCEPT !.extract = @ - 1]
       IN /\ parent' = p2
          /\ IF kind = "success" /\ PrefillTearsDown(host)
             THEN Teardown(MountedUnder(host, p2), VerifyPending,
                           ExtractPending, d2)
             ELSE /\ dead' = d2
                  /\ mounted' = MountedUnder(host, p2)
                  /\ UNCHANGED <<fvState, camVars, netVars, obs, frame>>
    /\ UNCHANGED <<hw, form>>

(***************************************************************************)
(* The parents: the App route, ManualKYC and KYCAgent.                     *)
(***************************************************************************)
instVars == <<fvState, camVars, netVars, dead, obs, frame>>

\* leaving and re-entering the /face-verification route
RouteLeave ==
    /\ host = "standalone"
    /\ mounted
    /\ Teardown(FALSE, VerifyPending, ExtractPending, dead)
    /\ UNCHANGED <<hw, parent, form>>

RouteEnter ==
    /\ host = "standalone"
    /\ ~mounted
    /\ mounted' = TRUE
    /\ UNCHANGED <<hw, instVars, parent, form>>

\* ManualKYC: the buttons that call setCurrentStep
ManualStep(from, to) ==
    /\ host = "manual"
    /\ parent.step = from
    /\ parent' = [parent EXCEPT !.step = to]
    /\ IF mounted
       THEN Teardown(to = "face-verification", VerifyPending, ExtractPending,
                     dead)
       ELSE /\ mounted' = (to = "face-verification")
            /\ UNCHANGED instVars
    /\ UNCHANGED <<hw, form>>

ManualSteps ==
    {<<"welcome", "face-verification">>, <<"face-verification", "welcome">>,
     <<"face-verification", "form">>, <<"form", "face-verification">>,
     <<"form", "complete">>}

AgentStartVerification ==
    /\ host = "agent"
    /\ parent.step = "welcome"
    /\ parent' = [parent EXCEPT !.step = "document-upload"]
    /\ UNCHANGED <<hw, mounted, instVars, form>>

\* KYCAgent.handleDocumentUpload up to the await of fetch; the upload
\* widgets stay in the chat once handleStartVerification has added one
AgentDocumentUpload(file) ==
    /\ host = "agent"
    /\ parent.step \notin {"welcome", "complete"}
    /\ parent.inflight < MaxAgentInFlight
    /\ parent' =
         IF ~IsImage(file)
         THEN [parent EXCEPT !.msg = "please upload an image file"]
         ELSE IF TooLarge(file)
         THEN [parent EXCEPT !.msg = "file size should be less than 5MB"]
         ELSE [parent EXCEPT !.uploaded = file, !.msg = "",
                             !.step = "document-processing",
                             !.processing = TRUE, !.inflight = @ + 1]
    /\ UNCHANGED <<hw, mounted, instVars, form>>

\* the continuation of KYCAgent.handleDocumentUpload after the response
AgentExtractResponse(kind, kyc) ==
    /\ host = "agent"
    /\ parent.inflight > 0
    /\ parent' =
         IF kind = "success"
         THEN [parent EXCEPT !.inflight = @ - 1, !.processing = FALSE,
                             !.kyc = kyc, !.show = TRUE, !.msg = "",
                             !.step = "face-verification"]
         ELSE [parent EXCEPT !.inflight = @ - 1, !.processing = FALSE,
                             !.msg = "", !.step = "document-upload"]
    /\ mounted' = (mounted \/ kind = "success")
    /\ UNCHANGED <<hw, instVars, form>>

\* the "Retry Face Verification" button that handleFaceVerified adds
AgentRetry ==
    /\ host = "agent"
    /\ parent.retry
    /\ parent.step # "complete"
    /\ parent' = [parent EXCEPT !.show = TRUE]
    /\ mounted' = TRUE
    /\ UNCHANGED <<hw, instVars, form>>

\* the nested setTimeout calls of handleFaceVerified(true)
AgentTimer ==
    /\ host = "agent"
    /\ parent.timer > 0
    /\ parent' =
         CASE parent.timer = 1 -> [parent EXCEPT !.timer = 2]
           [] parent.timer = 2 ->
                [parent EXCEPT !.timer = 3, !.step = "complete"]
           [] OTHER -> [parent EXCEPT !.timer = 0, !.completed = TRUE]
    /\ UNCHANGED <<hw, mounted, instVars, form>>

\* the steps of a FaceVerification instance and of its continuations, for
\* the extraction results in samples
NextInstance(samples) ==
    \/ StartCameraCall
    \/ StartCameraResolve
    \/ StartCameraReject
    \/ RunEffect
    \/ CameraAcquired
    \/ \E present \in BOOLEAN : OnResults(present)
    \/ LivenessTick
    \/ \E kind \in LivenessKinds, frames \in FramesCollected :
          LivenessResponse(kind, frames)
    \/ \E file \in Files : HandleDocumentUpload(file)
    \/ \E kind \in ExtractKinds, kyc \in samples :
          ExtractResponse(kind, kyc)
    \/ VerifyStart
    \/ VerifySend
    \/ \E result \in VerifyResults : VerifyResponse(result)
    \/ DeadStartResolve
    \/ DeadStartReject
    \/ \E kind \in ExtractKinds, kyc \in samples :
          DeadExtractDone(kind, kyc)

\* with the handleVerify calls that outlive their instance
NextFV ==
    \/ NextInstance(KycSamples)
    \/ \E success \in BOOLEAN : DeadVerifyDone(success)

NextRoute == RouteLeave \/ RouteEnter

NextManual == \E st \in ManualSteps : ManualStep(st[1], st[2])

NextKYCAgent ==
    \/ AgentStartVerification
    \/ \E file \in Files : AgentDocumentUpload(file)
    \/ \E kind \in ExtractKinds : AgentExtractResponse(kind, KycFull)
    \/ AgentRetry
    \/ AgentTimer

Next == NextFV \/ NextRoute \/ NextManual

Spec == Init /\ [][Next]_vars

(***************************************************************************)
(* KYCForm: the form that receives the prefill record.                     *)
(***************************************************************************)
\* the setFormData of the useEffect on [prefillData]
FormMerge(prev, p) ==
    [firstName |-> Or(At(p.name, 1), prev.firstName),
     lastName |-> Or(At(p.name, 2), prev.lastName),
     dateOfBirth |-> Or(p.dateOfBirth, prev.dateOfBirth),
     phoneNumber |-> Or(p.mobileNumber, prev.phoneNumber),
     street |-> Or(p.address, prev.street),
     documentNumber |-> Or(p.aadhaarNumber, prev.documentNumber)]

fvVars == <<hw, mounted, fvState, camVars, netVars, dead, obs, frame,
            parent>>

\* an extraction result reaches ManualKYC.handlePrefillData while the form
\* is shown: setFormPrefillData re-renders ManualKYC, whose FormStep is
\* declared inside its body, so the KYCForm below it is mounted afresh with
\* the new prop (useState initialiser, then the effect)
KYCFormPrefill(kyc) ==
    /\ LET p == prefillFormWithKYCData(kyc)
       IN form' = [form EXCEPT !.prefill = p,
                               !.data = FormMerge(FormDataInit(p, form.user),
                                                  p),
                               !.lastOp = "extract", !.raw = kyc.gender]
    /\ UNCHANGED fvVars

\* leaving the form step and coming back mounts the form afresh with the
\* current prop
KYCFormMount ==
    /\ form' = [form EXCEPT
                  !.data = FormMerge(FormDataInit(form.prefill, form.user),
                                     form.prefill),
                  !.lastOp = "mount"]
    /\ UNCHANGED fvVars

EditFields == {"firstName", "dateOfBirth"}
EditValues == {Empty, <<"x">>}

\* handleChange('personalInfo', field, value): the user edits a field
KYCFormEdit(field, value) ==
    /\ form' = [form EXCEPT !.data[field] = value, !.lastOp = "edit"]
    /\ UNCHANGED fvVars

InitForm == InitFor({"manual"}, "session", Users)

NextForm ==
    \/ \E kyc \in KycInputs : KYCFormPrefill(kyc)
    \/ KYCFormMount
    \/ \E f \in EditFields, v \in EditValues : KYCFormEdit(f, v)

SpecForm == InitForm /\ [][NextForm]_vars

\* FaceVerification inside KYCAgent, which unmounts it only from its own
\* onVerified call: no handleVerify is pending then, the button being
\* disabled while loading
InitAgent == InitFor({"agent"}, "session", {NoUser})
NextAgent == NextInstance({KycFull}) \/ NextKYCAgent
SpecAgent == InitAgent /\ [][NextAgent]_vars

\* FaceVerification on its own route, recording one group of observations
NextStandalone == NextFV \/ NextRoute
InitProbe == InitFor({"standalone"}, "probe", {NoUser})
SpecProbe == InitProbe /\ [][NextStandalone]_vars
InitMatch == InitFor({"standalone"}, "match", {NoUser})
SpecMatch == InitMatch /\ [][NextStandalone]_vars
InitPresence == InitFor({"standalone"}, "presence", {NoUser})
SpecPresence == InitPresence /\ [][NextStandalone]_vars

\* the liveness interval keeps sampling as long as no live verdict arrives
FairSpec ==
    /\ InitFor({"standalone"}, "session", {NoUser})
    /\ [][NextStandalone]_vars
    /\ WF_vars(RunEffect)
    /\ WF_vars(CameraAcquired)
    /\ WF_vars(LivenessTick)
    /\ WF_vars(\E kind \in LivenessKinds, frames \in FramesCollected :
                  LivenessResponse(kind, frames))

(***************************************************************************)
(* LoginForm (Auth/LoginForm.tsx).                                         *)
(***************************************************************************)
\* [^\s@]
EmailChar(c) == c # " " /\ c # "@"

\* emailRegex.test(s) with /^[^\s@]+@[^\s@]+\.[^\s@]+$/: one "@" with a
\* non-empty run before it, and after it a run that has a "." with at least
\* one character on each side
EmailRegexTest(s) ==
    \E i \in 1..Len(s) :
       /\ s[i] = "@"
       /\ i > 1
       /\ \A k \in 1..Len(s) : k # i => EmailChar(s[k])
       /\ \E j \in (i + 2)..(Len(s) - 1) : s[j] = "."

EmailGood == <<"a","@","b",".","c">>
EmailNoAt == <<"a","b">>
EmailNoDot == <<"a","@","b">>
EmailSpace == <<"a"," ","@","b",".","c">>
EmailDotLast == <<"a","@","b",".">>
LoginEmails == {Empty, EmailGood, EmailNoAt, EmailNoDot, EmailSpace,
                EmailDotLast}
Secret == <<"p","w","1","2","3","4">>
LoginPasswords == {Empty, Secret}

fvAll == <<host, watch, mounted, fvState, camVars, netVars, dead, obs, frame,
           parent, form>>

\* handleChange
LoginChange(field, value) ==
    /\ ~loginForm.navigated
    /\ loginForm[field] # value
    /\ loginForm' = [loginForm EXCEPT ![field] = value, !.lastOp = "change"]
    /\ UNCHANGED <<fvAll, signupForm, admin>>

\* a variant that sets the loading flag before it validates
LoginSubmitLoadsFirst ==
    /\ ~loginForm.navigated
    /\ ~loginForm.loading
    /\ loginForm.calls < MaxLoginCalls
    /\ LET f == loginForm
       IN IF Falsy(f.email) \/ Falsy(f.password)
          THEN loginForm' = [f EXCEPT !.notice = "fill", !.loading = TRUE,
                                      !.lastOp = "submit"]
          ELSE IF ~EmailRegexTest(f.email)
          THEN loginForm' = [f EXCEPT !.notice = "email", !.loading = TRUE,
                                      !.lastOp = "submit"]
          ELSE loginForm' = [f EXCEPT !.loading = TRUE,
                                      !.pending = <<f.email, f.password>>,
                                      !.calls = @ + 1, !.lastOp = "submit"]
    /\ UNCHANGED <<fvAll, signupForm, admin>>

\* handleSubmit up to the await of login(); the submit button is disabled
\* while loading
LoginSubmit ==
    /\ ~loginForm.navigated
    /\ ~loginForm.loading
    /\ loginForm.calls < MaxLoginCalls
    /\ LET f == loginForm
       IN IF Falsy(f.email) \/ Falsy(f.password)
          THEN loginForm' = [f EXCEPT !.notice = "fill", !.lastOp = "submit"]
          ELSE IF ~EmailRegexTest(f.email)
          THEN loginForm' = [f EXCEPT !.notice = "email", !.lastOp = "submit"]
          ELSE loginForm' = [f EXCEPT !.loading = TRUE,
                                      !.pending = <<f.email, f.password>>,
                                      !.calls = @ + 1, !.lastOp = "submit"]
    /\ UNCHANGED <<fvAll, signupForm, admin>>

LoginOutcomes == {"success", "refused", "thrown"}

\* handleSubmit after the await: the notification, the redirect on success,
\* and the finally block
LoginDone(outcome) ==
    /\ loginForm.pending # NoCall
    /\ loginForm' = [loginForm EXCEPT
                       !.pending = NoCall,
                       !.loading = FALSE,
                       !.notice = CASE outcome = "success" -> "logged in"
                                    [] outcome = "refused" -> "invalid"
                                    [] OTHER -> "error",
                       !.navigated = @ \/ outcome = "success",
                       !.lastOp = "done"]
    /\ UNCHANGED <<fvAll, signupForm, admin>>

NextLogin ==
    \/ \E e \in LoginEmails : LoginChange("email", e)
    \/ \E pw \in LoginPasswords : LoginChange("password", pw)
    \/ LoginSubmit
    \/ \E o \in LoginOutcomes : LoginDone(o)

SpecLogin == InitFor({"standalone"}, "session", {NoUser}) /\ [][NextLogin]_vars

(***************************************************************************)
(* SignupForm (Auth/SignupForm.tsx).                                       *)
(***************************************************************************)
FirstName == <<"J","o","h","n">>
LastName == <<"D","o","e">>
Short == <<"1","2","3">>
SignupEmails == {Empty, EmailGood, EmailNoAt}
SignupPasswords == {Empty, Short, Secret}
SignupFields ==
    [firstName |-> {Empty, FirstName}, lastName |-> {Empty, LastName},
     email |-> SignupEmails, password |-> SignupPasswords,
     confirmPassword |-> SignupPasswords]

\* handleChange, for the fields typed since the last event of the model
SignupChange(field, value) ==
    /\ signupForm.shown
    /\ signupForm[field] # value
    /\ signupForm' = [signupForm EXCEPT ![field] = value, !.lastOp = "change"]
    /\ UNCHANGED <<fvAll, loginForm, admin>>

\* a variant that tests the password length before the confirmation
SignupSubmitLengthFirst ==
    /\ signupForm.shown
    /\ ~signupForm.loading
    /\ signupForm.calls < MaxSignupCalls
    /\ LET f == signupForm
           refuse(n) == [f EXCEPT !.notice = n, !.lastOp = "submit"]
       IN signupForm' =
            IF \/ Falsy(f.firstName) \/ Falsy(f.lastName) \/ Falsy(f.email)
               \/ Falsy(f.password) \/ Falsy(f.confirmPassword)
            THEN refuse("fill")
            ELSE IF ~EmailRegexTest(f.email) THEN refuse("email")
            ELSE IF Len(f.password) < 6 THEN refuse("short")
            ELSE IF f.password # f.confirmPassword THEN refuse("mismatch")
            ELSE [f EXCEPT !.loading = TRUE,
                           !.pending = [email |-> f.email,
                                        password |-> f.password,
                                        firstName |-> f.firstName,
                                        lastName |-> f.lastName],
                           !.calls = @ + 1, !.lastOp = "submit"]
    /\ UNCHANGED <<fvAll, loginForm, admin>>

\* handleSubmit up to the await of signup(); the submit button is disabled
\* while loading
SignupSubmit ==
    /\ signupForm.shown
    /\ ~signupForm.loading
    /\ signupForm.calls < MaxSignupCalls
    /\ LET f == signupForm
           refuse(n) == [f EXCEPT !.notice = n, !.lastOp = "submit"]
       IN signupForm' =
            IF \/ Falsy(f.firstName) \/ Falsy(f.lastName) \/ Falsy(f.email)
               \/ Falsy(f.password) \/ Falsy(f.confirmPassword)
            THEN refuse("fill")
            ELSE IF ~EmailRegexTest(f.email) THEN refuse("email")
            ELSE IF f.password # f.confirmPassword THEN refuse("mismatch")
            ELSE IF Len(f.password) < 6 THEN refuse("short")
            ELSE [f EXCEPT !.loading = TRUE,
                           !.pending = [email |-> f.email,
                                        password |-> f.password,
                                        firstName |-> f.firstName,
                                        lastName |-> f.lastName],
                           !.calls = @ + 1, !.lastOp = "submit"]
    /\ UNCHANGED <<fvAll, loginForm, admin>>

SignupOutcomes == {"success", "exists", "thrown"}

\* handleSubmit after the await; on an unmounted form the setLoading does
\* nothing
SignupDone(outcome) ==
    /\ signupForm.pending # NoCall
    /\ signupForm' = [signupForm EXCEPT
                        !.pending = NoCall,
                        !.loading = FALSE,
                        !.notice = CASE outcome = "success" -> "created"
                                     [] outcome = "exists" -> "exists"
                                     [] OTHER -> "error",
                        !.timer = @ \/ outcome = "success",
                        !.lastOp = "done"]
    /\ UNCHANGED <<fvAll, loginForm, admin>>

\* the timer calls onToggleForm: the parent shows the login form instead
SignupTimer ==
    /\ signupForm.timer
    /\ signupForm' = [signupForm EXCEPT !.timer = FALSE, !.shown = FALSE,
                                        !.lastOp = "toggle"]
    /\ UNCHANGED <<fvAll, loginForm, admin>>

NextSignup ==
    \/ \E field \in DOMAIN SignupFields :
          \E value \in SignupFields[field] : SignupChange(field, value)
    \/ SignupSubmit
    \/ \E o \in SignupOutcomes : SignupDone(o)
    \/ SignupTimer

SpecSignup ==
    InitFor({"standalone"}, "session", {NoUser}) /\ [][NextSignup]_vars

(***************************************************************************)
(* AdminDashboard.handleStatusUpdate and kycApi.updateKYCStatus.           *)
(***************************************************************************)
\* a variant that trims nothing
TrimNothing(t) == t

\* String.prototype.trim, for texts whose only white space is the space
Trim(t) ==
    LET inked == {i \in 1..Len(t) : t[i] # " "}
    IN IF inked = {} THEN Empty
       ELSE SubSeq(t, CHOOSE i \in inked : \A j \in inked : i <= j,
                      CHOOSE i \in inked : \A j \in inked : i >= j)

Blank == <<" ", " ">>
Padded == <<" ", "n", "o">>
ReasonTexts == {Empty, Blank, Padded}
StatusUpdates == {"approved", "rejected", "under_review"}
UpdateResponses == {"ok", "http error", "network error"}

\* updateKYCStatus: success only for a response that is ok; a status outside
\* 2xx and a failed fetch are caught and returned as success: false
UpdateSucceeded(resp) == resp = "ok"

\* the row's button
AdminSelect(id) ==
    /\ admin.selected.id # id
    /\ admin' = [admin EXCEPT
                   !.selected = [id |-> id, status |-> admin.status[id]],
                   !.lastOp = "select"]
    /\ UNCHANGED <<fvAll, loginForm, signupForm>>

\* the close button of the detail view
AdminClose ==
    /\ admin.selected # NoSelection
    /\ admin' = [admin EXCEPT !.selected = NoSelection, !.lastOp = "close"]
    /\ UNCHANGED <<fvAll, loginForm, signupForm>>

\* the review actions are rendered while selectedApplication.status is
\* pending
ReviewShown == admin.selected # NoSelection /\ admin.selected.status = "pending"

AdminReason(text) ==
    /\ ReviewShown
    /\ admin.rejectionReason # text
    /\ admin' = [admin EXCEPT !.rejectionReason = text, !.lastOp = "type"]
    /\ UNCHANGED <<fvAll, loginForm, signupForm>>

\* handleStatusUpdate(selectedApplication.id, status) up to the await
AdminStatusUpdate(status) ==
    /\ ReviewShown
    /\ admin.sent < MaxStatusUpdates
    /\ admin' =
         IF status = "rejected" /\ Falsy(Trim(admin.rejectionReason))
         THEN [admin EXCEPT !.alert = "reason", !.lastOp = "refused"]
         ELSE [admin EXCEPT
                 !.pending = @ \cup
                    {[n |-> admin.sent + 1, id |-> admin.selected.id,
                      status |-> status,
                      reason |-> IF status = "rejected"
                                 THEN admin.rejectionReason ELSE Null]},
                 !.sent = @ + 1, !.lastOp = "sent"]
    /\ UNCHANGED <<fvAll, loginForm, signupForm>>

\* handleStatusUpdate after the await, with the rejectionReason of the
\* render that called it
AdminUpdateDone(req, resp) ==
    /\ req \in admin.pending
    /\ admin' =
         IF UpdateSucceeded(resp)
         THEN [admin EXCEPT
                 !.pending = @ \ {req},
                 !.status[req.id] = req.status,
                 !.reasonOf[req.id] =
                     IF req.status = "rejected" THEN req.reason ELSE @,
                 !.selected = NoSelection,
                 !.rejectionReason = Empty,
                 !.lastOp = "updated", !.lastResp = resp]
         ELSE [admin EXCEPT !.pending = @ \ {req}, !.alert = "failed",
                            !.lastOp = "failed", !.lastResp = resp]
    /\ UNCHANGED <<fvAll, loginForm, signupForm>>

NextAdmin ==
    \/ \E id \in AppIds : AdminSelect(id)
    \/ AdminClose
    \/ \E text \in ReasonTexts : AdminReason(text)
    \/ \E status \in StatusUpdates : AdminStatusUpdate(status)
    \/ \E req \in admin.pending, resp \in UpdateResponses :
          AdminUpdateDone(req, resp)

SpecAdmin ==
    InitFor({"standalone"}, "session", {NoUser}) /\ [][NextAdmin]_vars

(***************************************************************************)
(* The states of the specification's session, read off the component.      *)
(***************************************************************************)
NoLiveStream == srcObject = "null" /\ mpStream # "live" /\ gumLive = 0
SessionIdle == ~mounted \/ (~cameraActive /\ pendingStarts = 0)
SessionVerified == obs.verified
Sampling == mounted /\ LivenessGuard

C2_CameraReleasedWhenIdleOrTerminal ==
    (SessionIdle \/ SessionVerified) => NoLiveStream

\* the part of C2 about the verified outcome alone
C2_CameraReleasedAfterVerified == SessionVerified => NoLiveStream

(***************************************************************************)
(* C3: after the component was torn down, no camera stream is live and no  *)
(* liveness interval is left.                                              *)
(***************************************************************************)
C3_CancelReleasesCamera == ~mounted => (NoLiveStream /\ ~eff.cameraActive)

(***************************************************************************)
(* C4: onResults emits a presence transition for a frame exactly when the  *)
(* frame's result differs from the previous frame's result.                *)
(***************************************************************************)
C4_PresenceDebounced == frame.emitted <=> (frame.result # frame.prev)

(***************************************************************************)
(* C5: an extraction result never changes a form field that is already     *)
(* non-empty.                                                              *)
(***************************************************************************)
C5_ExtractionKeepsFilledFields ==
    [][form'.lastOp = "extract" =>
         \A f \in DOMAIN form.data :
            form.data[f] # Empty => form'.data[f] = form.data[f]]_vars

(***************************************************************************)
(* C6: once live=true was handled after n "collecting" responses, exactly  *)
(* n+1 frames were submitted, and no frame is submitted after the live     *)
(* response was handled.                                                   *)
(***************************************************************************)
C6_ExactSubmissions ==
    /\ (obs.liveOK /\ ~obs.impure) => obs.submitted = obs.collecting + 1
    /\ ~obs.afterLive

(***************************************************************************)
(* C7: with a cap of 3, a session without a verified result never sends a  *)
(* fourth POST /verify.                                                    *)
(***************************************************************************)
C7_MatchAttemptsCapped == ~obs.verified => obs.attempts <= 3

(***************************************************************************)
(* C8: a rejected getUserMedia leaves the camera inactive, and while the   *)
(* camera is not active nothing is subscribed, no frame is detected and no *)
(* liveness frame is submitted.                                            *)
(***************************************************************************)
C8_RejectedStartStaysOff ==
    /\ [][(~obs.rejected /\ obs'.rejected) =>
            (cameraActive' = cameraActive /\ eff' = eff
             /\ livInFlight' = livInFlight)]_vars
    /\ [](~cameraActive =>
            (~eff.cameraActive /\ mpStream = "none" /\ livInFlight = 0
             /\ ~obs.detected /\ ~faceDetected /\ ~liveDetected))

C8_Witness ==
    mounted /\ obs.rejected /\ ~cameraActive /\ pendingStarts = 0

(***************************************************************************)
(* C9: a probe that is sampling stops sampling at some point.              *)
(***************************************************************************)
C9_ProbeEnds == [](Sampling => <>(~Sampling))

(***************************************************************************)
(* C10: a file whose type does not start with "image/" or whose size is    *)
(* over 5 MB is never stored as the document of either upload handler, and *)
(* the step that refuses a file changes neither the component's state, its *)
(* camera and requests, nor the parent's state other than the message.     *)
(***************************************************************************)
ClaimInvalid(f) ==
    \/ ~(Len(f.type) >= 6 /\ SubSeq(f.type, 1, 6) = ImagePrefix)
    \/ f.size > 5 * 1024 * 1024

C11_StartFailsFast ==
    [][/\ pendingStarts' > pendingStarts =>
            (pendingStarts = 0 /\ ~cameraActive)
       /\ (liveDetected /\ cameraActive /\ cameraActive') => liveDetected']_vars

\* the second part of C11 alone
C11_ConfirmationKept ==
    [][(liveDetected /\ cameraActive /\ cameraActive') => liveDetected']_vars

(***************************************************************************)
(* C12: a handleVerify that finishes after its instance was unmounted      *)
(* changes neither the parent's state nor the mounted instance.            *)
(***************************************************************************)
C12_LateResponsesDiscarded ==
    [][dead'.verify < dead.verify =>
         (parent' = parent /\ mounted' = mounted /\ UNCHANGED fvState)]_vars

(***************************************************************************)
(* C13: a liveness frame is submitted only while presence (faceDetected)   *)
(* is true.                                                                *)
(***************************************************************************)
C13_NoSubmissionWithoutPresence ==
    [][livInFlight' > livInFlight => faceDetected]_vars

\* the second part of C13: outside a remount by the parent, a presence
\* change leaves the liveness progress alone
C13_ProgressKeptAcrossPresence ==
    [][(host = "standalone" /\ faceDetected' # faceDetected
        /\ mounted /\ mounted') =>
           (liveDetected' = liveDetected /\ livenessDone' = livenessDone)]_vars

(***************************************************************************)
(* C14: a not-verified outcome leaves the verification component mounted   *)
(* with its liveness confirmation, ready for another attempt; under        *)
(* KYCAgent the failure branch of handleFaceVerified is the step that      *)
(* raises showRetryButton.                                                 *)
(***************************************************************************)
C14_RetryKeepsLiveness ==
    [][(parent'.retry /\ ~parent.retry) =>
           (mounted' /\ liveDetected' = liveDetected)]_vars

\* the stand-alone part of C14: a handleVerify that ends there
\* before any success leaves the component and its confirmation alone
C14_RetryKeepsLivenessStandalone ==
    [][(/\ host = "standalone" /\ mounted
        /\ VerifyPending' = VerifyPending - 1
        /\ dead' = dead /\ parent' = parent
        /\ ~obs'.verified) =>
           (mounted' /\ liveDetected' = liveDetected)]_vars

DocumentReady == documentFile # NoFile /\ ~extractingData

C16_MatchWaitsForDocument ==
    [][Len(verifyCapturing') > Len(verifyCapturing) =>
         (liveDetected /\ DocumentReady)]_vars

C16_Witness ==
    /\ verifyCapturing # <<>>
    /\ liveDetected
    /\ DocumentReady

(***************************************************************************)
(* C17: once onVerified(true) was delivered, the instance sends no further *)
(* /verify request.                                                        *)
(***************************************************************************)
C17_VerifiedIsTerminal ==
    [][obs.verified => obs'.attempts <= obs.attempts]_vars

(***************************************************************************)
(* C18: the gender of a prefill record built from an extraction result is  *)
(* one of Male, Female, Other, Unknown.                                    *)
(***************************************************************************)
NormalizedGenders ==
    {<<"M","a","l","e">>, <<"F","e","m","a","l","e">>, <<"O","t","h","e","r">>,
     <<"U","n","k","n","o","w","n">>}

C18_GenderInClosedSet ==
    form.lastOp = "extract" => form.prefill.gender \in NormalizedGenders

\* C18 for the raw texts that are present: only the absent and the empty
\* gender excused
C18_PresentGenderInClosedSet ==
    (form.lastOp = "extract" /\ form.prefill.gender # Null) =>
        form.prefill.gender \in NormalizedGenders

(***************************************************************************)
(* C19: with a cap of 1, no liveness frame is submitted once two requests  *)
(* in a row have failed.                                                   *)
(***************************************************************************)
C19_ConsecutiveErrorsCapped ==
    [][obs.errors >= 2 => obs'.submitted <= obs.submitted]_vars

(***************************************************************************)
(* C20: the step in which a running extraction delivers its prefill record *)
(* to the parent leaves the component mounted and its camera, presence,    *)
(* liveness confirmation and pending match as they were.                   *)
(***************************************************************************)
C20_ExtractionOnlyMerges ==
    [][(mounted /\ extractingData /\ parent'.prefill # parent.prefill) =>
         /\ mounted'
         /\ UNCHANGED <<cameraActive, faceDetected, liveDetected,
                        livenessDone, srcObject, mpStream, verifyCapturing,
                        verifyInFlight>>]_vars

(***************************************************************************)
(* C21: at most one camera stream is live at a time: the streams obtained  *)
(* by handleStartCamera and not stopped, plus the stream of the Camera     *)
(* helper.                                                                 *)
(***************************************************************************)
LiveHandles == gumLive + (IF mpStream = "live" THEN 1 ELSE 0)

C21_OneLiveHandle == LiveHandles <= 1

\* the second part of C21: a step that acquires a stream starts from none
C21_AcquireAfterRelease ==
    [][LiveHandles' > LiveHandles => LiveHandles = 0]_vars

(***************************************************************************)
(* C22: a run of the effect's cleanup leaves no stream of handleStartCamera *)
(* live, and running its release a second time changes nothing.            *)
(***************************************************************************)
C22_ReleaseStopsHardware ==
    [][(mounted /\ mounted' /\ eff.cameraActive /\ eff' # eff) =>
          (srcObject' = "null" /\ gumLive' = 0)]_vars

\* the idempotence half of C22
C22_ReleaseIdempotent ==
    LET c == [srcObject |-> srcObject, gumLive |-> gumLive]
    IN StopAttached(StopAttached(c)) = StopAttached(c)

NamesFemale(g) == Includes(ToLowerCase(g), <<"f","e","m","a","l","e">>)
NamesMale(g) == Includes(ToLowerCase(g), <<"m","a","l","e">>)

C25_FemaleNotMale ==
    form.lastOp = "extract" =>
        /\ NamesFemale(form.raw) =>
              form.prefill.gender = <<"F","e","m","a","l","e">>
        /\ (NamesMale(form.raw) /\ ~NamesFemale(form.raw)) =>
              form.prefill.gender = <<"M","a","l","e">>

\* the half of C25 about texts that name only "male"
C25_MaleMapped ==
    (form.lastOp = "extract" /\ NamesMale(form.raw) /\ ~NamesFemale(form.raw))
        => form.prefill.gender = <<"M","a","l","e">>

(***************************************************************************)
(* C26: an instance has at most one handleVerify running, so at most one   *)
(* POST /verify awaiting its response.                                     *)
(***************************************************************************)
C26_OneMatchInFlight == VerifyPending <= 1 /\ (VerifyPending = 1 => loading)

C26_Witness == verifyInFlight = 1 /\ obs.attempts = 2

(***************************************************************************)
(* C27: liveDetected and livenessDone are equal in every state.            *)
(***************************************************************************)
C27_LivenessFlagsEqual == liveDetected = livenessDone

C27_Witness == mounted /\ cameraActive /\ liveDetected /\ livenessDone

(***************************************************************************)
(* C28: KYCAgent's currentStep changes only along welcome,                 *)
(* document-upload, document-processing, face-verification,                *)
(* verification-processing, complete, or back from document-processing to  *)
(* document-upload.                                                        *)
(***************************************************************************)
AgentOrder ==
    {<<"welcome", "document-upload">>,
     <<"document-upload", "document-processing">>,
     <<"document-processing", "face-verification">>,
     <<"document-processing", "document-upload">>,
     <<"face-verification", "verification-processing">>,
     <<"verification-processing", "complete">>}

C28_AgentStepsInOrder ==
    [][parent'.step # parent.step =>
          <<parent.step, parent'.step>> \in AgentOrder]_vars

\* the rest of C28: the widget is shown only with a validated document
\* uploaded, and completion follows handleFaceVerified(true)
C28_GatesHold ==
    /\ parent.show => (parent.uploaded # NoFile /\ ValidFile(parent.uploaded))
    /\ (parent.step = "complete" \/ parent.completed) => parent.faceComplete

(***************************************************************************)
(* C29: a 'rejected' update with a blank reason sends no request and       *)
(* changes nothing but the alert; an update that failed changes no         *)
(* application, selection or reason; an application's status changes only  *)
(* in the step that handles a successful response, and then only for the   *)
(* id of that request.                                                     *)
(***************************************************************************)
IsBlank(t) == \A i \in 1..Len(t) : t[i] = " "

AdminData(a) == <<a.status, a.reasonOf, a.selected, a.rejectionReason>>

C29_FailedUpdateChangesNothing ==
    [][/\ \A r \in admin'.pending \ admin.pending :
             r.status = "rejected" => ~IsBlank(r.reason)
       /\ admin'.lastOp = "refused" =>
             (AdminData(admin') = AdminData(admin)
              /\ admin'.pending = admin.pending /\ admin'.sent = admin.sent)
       /\ (admin'.pending # admin.pending /\ admin'.sent = admin.sent
           /\ admin'.lastResp # "ok") =>
             AdminData(admin') = AdminData(admin)
       /\ admin'.status # admin.status =>
             /\ admin'.lastResp = "ok"
             /\ \E r \in admin.pending \ admin'.pending :
                   admin'.status = [admin.status EXCEPT ![r.id] = r.status]]_vars

C29_Witness ==
    /\ admin.lastOp = "refused"
    /\ admin.rejectionReason = Blank
    /\ admin.sent = 1
    /\ admin.lastResp = "http error"

====
